---- MODULE Spec2Model ----
(***************************************************************************)
(* Model of the todo application's client state (App.tsx) together with   *)
(* the two remote collaborators it talks to: the auth service and the     *)
(* table public.todos with its row level security policies.               *)
(*                                                                         *)
(* Every remote call is asynchronous.  A call is appended to `pending`    *)
(* when the client issues it, the store executes it in a step of its own  *)
(* (phase "sent" -> "done") and the continuation after the `await` runs   *)
(* when the reply is delivered.  Replies may be delivered in any order.   *)
(***************************************************************************)
EXTENDS Integers, Sequences, FiniteSets, TLC

\* ---------------------------------------------------------------- bounds
MaxPending == 2   \* remote calls in flight at once
MaxRows    == 3   \* ids the store hands out (the two seeded rows included)
MaxClock   == 5   \* last value of the store's now() a mutation may be stamped with
MaxEvents  == 3   \* user and environment events in one run

\* ------------------------------------------------------------- constants
Users      == {"u1", "u2"}
None       == "none"                 \* session / user absent (null)
NoId       == 0                      \* editingId null
NullText   == <<"NULL">>             \* SQL null / JS null of a text column
NoError    == "null"                 \* error state null
OkRes      == "ok"                   \* reply without error
StoreErr   == "store failure"        \* error.message of a failed store call
RlsErr     == "new row violates row-level security policy"
AuthErr    == "auth failure"         \* error.message of a failed auth call
TitleReq   == "Title is required"
Filters    == {"all", "active", "completed"}

\* Text is a sequence of one-character strings.
TitleInputs == { <<" ">>, <<" ", "b", " ">> }
DescInputs  == { <<"d", " ">> }
Date1       == <<"2026", "-11", "-01">>      \* value of <input type="date">
DateInputs  == { Date1 }

VARIABLES
    session,        \* tracked session: None or the user's id
    loading,
    todos,          \* client-held collection: sequence of rows
    error,
    authMode,
    authLoading,
    title, description, dueDate, editingId,
    filter,
    effectPending,  \* the [session] effect is scheduled and has not run yet
    mounted,        \* the component is mounted
    subscribed,     \* the auth listener of the mount effect is registered
    authUser,       \* the auth client's own session (identity sent with calls)
    rows,           \* public.todos
    nextId,         \* next id gen_random_uuid() hands out
    now,            \* the store's clock
    pending,        \* remote calls in flight, in the order they were issued
    events,         \* user and environment events so far
    lastEvent,      \* the handler that ran in the last step, and its input
    lone            \* the mutation that runs with no other call overlapping it

vars == << session, loading, todos, error, authMode, authLoading, title,
           description, dueDate, editingId, filter, effectPending, mounted,
           subscribed, authUser, rows, nextId, now, pending, events,
           lastEvent, lone >>

\* ------------------------------------------------------------ pure parts

Min(a, b) == IF a < b THEN a ELSE b

RECURSIVE TrimLeft(_)
TrimLeft(s) ==
    IF s # <<>> /\ Head(s) = " " THEN TrimLeft(Tail(s)) ELSE s

RECURSIVE TrimRight(_)
TrimRight(s) ==
    IF s # <<>> /\ s[Len(s)] = " " THEN TrimRight(SubSeq(s, 1, Len(s) - 1)) ELSE s

\* trimStart in the place of trim
TrimStartOnly(s) == TrimLeft(s)

\* String.prototype.trim
Trim(s) == TrimRight(TrimLeft(s))

\* new Date(dueDate).toISOString() of a yyyy-mm-dd value
ToISOString(d) == d \o <<"T00:00:00.000Z">>

\* todo.due_date.slice(0, 10): the first three tokens are the ten characters
Slice10(s) == SubSeq(s, 1, Min(3, Len(s)))

\* x || alt for text: the empty string and null are falsy
OrElse(x, alt) == IF x = <<>> \/ x = NullText THEN alt ELSE x

Todo(id, user, t, d, c, due, created, updated) ==
    [ id |-> id, user_id |-> user, title |-> t, description |-> d,
      completed |-> c, due_date |-> due, created_at |-> created,
      updated_at |-> updated ]

\* the payload with the title taken as typed
PayloadUntrimmed(t, d, due, user) ==
    [ title       |-> t,
      description |-> OrElse(Trim(d), NullText),
      due_date    |-> IF due # <<>> THEN ToISOString(due) ELSE NullText,
      user_id     |-> user ]

\* The payload handleSubmitTodo builds from the form.
Payload(t, d, due, user) ==
    [ title       |-> Trim(t),
      description |-> OrElse(Trim(d), NullText),
      due_date    |-> IF due # <<>> THEN ToISOString(due) ELSE NullText,
      user_id     |-> user ]

NoPayload == Payload(<<>>, <<>>, <<>>, None)

\* the predicate of the 'active' filter without its negation
FilterActiveSwapped(ts) == SelectSeq(ts, LAMBDA t : t.completed)

FilterActive(ts) == SelectSeq(ts, LAMBDA t : ~t.completed)

FilterCompleted(ts) == SelectSeq(ts, LAMBDA t : t.completed)

\* useMemo(filteredTodos)
FilteredTodosOf(ts, f) ==
    IF f = "active" THEN FilterActive(ts)
    ELSE IF f = "completed" THEN FilterCompleted(ts)
    ELSE ts

filteredTodos == FilteredTodosOf(todos, filter)

\* .order('created_at', { ascending: true })
RECURSIVE OrderAsc(_)
OrderAsc(S) ==
    IF S = {} THEN <<>>
    ELSE LET r == CHOOSE x \in S : \A y \in S : x.created_at <= y.created_at
         IN  <<r>> \o OrderAsc(S \ {r})

\* .order('created_at', { ascending: false })
RECURSIVE OrderDesc(_)
OrderDesc(S) ==
    IF S = {} THEN <<>>
    ELSE LET r == CHOOSE x \in S : \A y \in S : y.created_at <= x.created_at
         IN  <<r>> \o OrderDesc(S \ {r})

\* policy "Users can view their todos": using (auth.uid() = user_id)
Visible(uid) == { r \in rows : uid # None /\ r.user_id = uid }

RemoveAt(s, i) == SubSeq(s, 1, i - 1) \o SubSeq(s, i + 1, Len(s))

\* ------------------------------------------------------------- calls

StoreKinds == {"fetch", "insert", "update", "toggle", "delete"}
AuthKinds  == {"signIn", "signUp", "signOut", "getSession"}

NoTodo == Todo(NoId, None, <<>>, NullText, FALSE, NullText, 0, 0)

\* A remote call in flight.  uid is the identity of the token sent with it.
\* origin, todo, shown and raw belong to the continuation that awaits the
\* reply: the handler it is part of, the task that handler was invoked on,
\* the collection on screen and the title in the form at that moment.
Call(kind, uid, origin) ==
    [ kind |-> kind, uid |-> uid, id |-> NoId, payload |-> NoPayload,
      completed |-> FALSE, origin |-> origin, todo |-> NoTodo,
      shown |-> <<>>, raw |-> <<>>,
      phase |-> "sent", res |-> OkRes, data |-> <<>> ]

NoCall == Call("none", None, "none")

\* A mutation invoked while nothing else is in flight, with the store's rows
\* at that moment.
Lone(call, before) == [ call |-> call, before |-> before ]

NoLone == Lone(NoCall, {})

Event(kind, call, todo, ln) ==
    [ kind |-> kind, call |-> call, todo |-> todo, lone |-> ln ]

Ev(kind) == Event(kind, NoCall, NoTodo, NoLone)

\* the select of fetchTodos, sent with the token the auth client holds; c is
\* the call whose continuation invokes fetchTodos
FetchCall(c) ==
    [ Call("fetch", authUser, c.origin)
      EXCEPT !.todo = c.todo, !.shown = c.shown, !.raw = c.raw ]

\* fetchTodos without the early return of line 75
TodosAfterFetchNoReturn(c, old) == IF c.res # OkRes THEN <<>> ELSE c.data

\* fetchTodos merging the rows it fetched into the collection it holds
TodosAfterFetchMerged(c, old) == IF c.res # OkRes THEN old ELSE old \o c.data

\* fetchTodos, lines 73-78: what the collection is after the reply c
TodosAfterFetch(c, old) == IF c.res # OkRes THEN old ELSE c.data

\* the [session] effect without its else branch
TodosAfterEffectKept(s, old) == old

\* the [session] effect, lines 53-57: what the collection is after it ran
TodosAfterEffect(s, old) == IF s # None THEN old ELSE <<>>

\* the continuation without the early return on error
TrailingCallsAlways(c) == << FetchCall(c) >>

\* the calls the continuation of the mutation c issues: its trailing
\* fetchTodos(), unless the store reported an error
TrailingCalls(c) == IF c.res # OkRes THEN <<>> ELSE << FetchCall(c) >>

\* a setState of an unmounted component is dropped
SetState(old, new) == IF mounted THEN new ELSE old

\* ------------------------------------------------------------- Init

\* the table as the run finds it: one row of each user, so that the policies
\* have a row to hide from either of them
SeedRows ==
    { Todo(1, "u2", <<"a">>, NullText, FALSE, NullText, 1, 1),
      Todo(2, "u1", <<"a">>, <<"d">>, TRUE, ToISOString(Date1), 2, 2) }

Init ==
    /\ session = None
    /\ loading = TRUE
    /\ todos = <<>>
    /\ error = NoError
    /\ authMode = "login"
    /\ authLoading = FALSE
    /\ title = <<>>
    /\ description = <<>>
    /\ dueDate = <<>>
    /\ editingId = NoId
    /\ filter = "all"
    /\ effectPending = FALSE
    /\ mounted = TRUE
    /\ subscribed = TRUE
    /\ authUser \in {None, "u1"}
    /\ rows = SeedRows
    /\ nextId = 3
    /\ now = 3
    /\ pending = << Call("getSession", authUser, "mount") >>
    /\ events = 0
    /\ lastEvent = Ev("mount")
    /\ lone = NoLone

\* ------------------------------------------------------- frame helpers

formVars   == << title, description, dueDate, editingId >>
storeVars  == << rows, nextId, now >>
authVars   == << session, loading, authMode, authLoading, authUser,
                 effectPending, mounted, subscribed >>

\* the interface is rendered and idle (line 174: nothing but "Loading...")
UiReady    == mounted /\ ~loading /\ ~effectPending
\* lines 189/220: the list and the task form are rendered with a session only
TaskUi     == UiReady /\ session # None
AuthUi     == UiReady /\ session = None

CanIssue   == Len(pending) < MaxPending

\* a step the user or the environment takes; the others are continuations
UserEvent  == events < MaxEvents /\ events' = events + 1

\* ------------------------------------------------------ session tracker

\* supabase.auth.getSession().then(...)
ReplyGetSession(i) ==
    /\ UNCHANGED events
    /\ i \in 1..Len(pending)
    /\ pending[i].kind = "getSession"
    /\ ~effectPending
    /\ session' = SetState(session, pending[i].uid)
    /\ loading' = SetState(loading, FALSE)
    /\ effectPending' = (mounted /\ pending[i].uid # session)
    /\ pending' = RemoveAt(pending, i)
    /\ lastEvent' = Event("reply", pending[i], NoTodo, NoLone)
    /\ lone' = NoLone
    /\ UNCHANGED << todos, error, authMode, authLoading, formVars, filter,
                    mounted, subscribed, authUser, storeVars >>

\* The auth collaborator notifies its listeners of newSession; the callback
\* registered at line 43 runs while it is subscribed: setSession(newSession)
OnAuthStateChange(newSession) ==
    IF subscribed
    THEN /\ session' = SetState(session, newSession)
         /\ effectPending' = (mounted /\ (effectPending \/ newSession # session))
    ELSE UNCHANGED << session, effectPending >>

\* useEffect(..., [session])
SessionEffect ==
    /\ UNCHANGED events
    /\ mounted
    /\ effectPending
    /\ effectPending' = FALSE
    /\ todos' = TodosAfterEffect(session, todos)
    /\ IF session # None
       THEN /\ error' = NoError
            /\ pending' = Append(pending, FetchCall(Call("none", None, "effect")))
       ELSE UNCHANGED << error, pending >>
    /\ lastEvent' = Ev("effect")
    /\ lone' = NoLone
    /\ UNCHANGED << session, loading, authMode, authLoading, formVars, filter,
                    mounted, subscribed, authUser, storeVars >>

\* the cleanup without its unsubscribe
StillSubscribed(sub) == sub

\* data.subscription.unsubscribe(): what the registration is after the cleanup
Unsubscribed(sub) == FALSE

\* the component is torn down: the cleanup of the mount effect runs
Unmount ==
    /\ UserEvent
    /\ mounted
    /\ mounted' = FALSE
    /\ subscribed' = Unsubscribed(subscribed)
    /\ effectPending' = FALSE
    /\ lastEvent' = Ev("unmount")
    /\ lone' = NoLone
    /\ UNCHANGED << session, loading, todos, error, authMode, authLoading,
                    formVars, filter, authUser, storeVars, pending >>

\* The auth collaborator gains a session outside handleAuth (the stored
\* session recovered at initialisation, a sign-in completed in another tab)
\* and notifies the listener.
SignedInElsewhere(u) ==
    /\ UserEvent
    /\ authUser = None
    /\ ~effectPending
    /\ authUser' = u
    /\ OnAuthStateChange(u)
    /\ lastEvent' = Ev("signedIn")
    /\ lone' = NoLone
    /\ UNCHANGED << loading, todos, error, authMode, authLoading, formVars,
                    filter, mounted, subscribed, storeVars, pending >>

\* The auth collaborator ends the session on its own (expiry, sign-out in
\* another tab) and notifies the listener.
SessionExpired ==
    /\ UserEvent
    /\ authUser # None
    /\ ~effectPending
    /\ authUser' = None
    /\ OnAuthStateChange(None)
    /\ lastEvent' = Ev("expired")
    /\ lone' = NoLone
    /\ UNCHANGED << loading, todos, error, authMode, authLoading, formVars,
                    filter, mounted, subscribed, storeVars, pending >>

\* ------------------------------------------------------------- auth

SetAuthMode ==
    /\ UserEvent
    /\ AuthUi
    /\ authMode' = IF authMode = "login" THEN "signup" ELSE "login"
    /\ lastEvent' = Ev("setAuthMode")
    /\ UNCHANGED << session, loading, todos, error, authLoading, formVars,
                    filter, effectPending, mounted, subscribed, authUser, storeVars,
                    pending, lone >>

\* handleAuth up to its await; u is the account of the typed credentials
HandleAuth(u) ==
    /\ UserEvent
    /\ AuthUi
    /\ ~authLoading
    /\ CanIssue
    /\ authLoading' = TRUE
    /\ error' = NoError
    /\ pending' = Append(pending,
           Call(IF authMode = "login" THEN "signIn" ELSE "signUp",
                u, "handleAuth"))
    /\ lastEvent' = Ev("handleAuth")
    /\ lone' = NoLone
    /\ UNCHANGED << session, loading, todos, authMode, formVars, filter,
                    effectPending, mounted, subscribed, authUser, storeVars >>

\* handleAuth after its await: the auth client has stored the session and
\* notified the listener before the promise resolves
ReplyAuth(i, ok) ==
    /\ UNCHANGED events
    /\ i \in 1..Len(pending)
    /\ pending[i].kind \in {"signIn", "signUp"}
    /\ ~effectPending
    /\ IF ok
       THEN /\ authUser' = pending[i].uid
            /\ OnAuthStateChange(pending[i].uid)
            /\ UNCHANGED error
       ELSE /\ error' = SetState(error, AuthErr)
            /\ UNCHANGED << authUser, session, effectPending >>
    /\ authLoading' = SetState(authLoading, FALSE)
    /\ pending' = RemoveAt(pending, i)
    /\ lastEvent' = Event("reply",
           [pending[i] EXCEPT !.res = IF ok THEN OkRes ELSE AuthErr],
           NoTodo, NoLone)
    /\ lone' = NoLone
    /\ UNCHANGED << loading, todos, authMode, formVars, filter, mounted, subscribed,
                    storeVars >>

\* handleLogout up to its await
HandleLogout ==
    /\ UserEvent
    /\ TaskUi
    /\ CanIssue
    /\ pending' = Append(pending, Call("signOut", authUser, "handleLogout"))
    /\ lastEvent' = Ev("handleLogout")
    /\ lone' = NoLone
    /\ UNCHANGED << session, loading, todos, error, authMode, authLoading,
                    formVars, filter, effectPending, mounted, subscribed, authUser,
                    storeVars >>

\* handleLogout after its await: the returned { error } is not looked at
ReplySignOut(i, ok) ==
    /\ UNCHANGED events
    /\ i \in 1..Len(pending)
    /\ pending[i].kind = "signOut"
    /\ ~effectPending
    /\ IF ok
       THEN /\ authUser' = None
            /\ OnAuthStateChange(None)
       ELSE UNCHANGED << authUser, session, effectPending >>
    /\ pending' = RemoveAt(pending, i)
    /\ lastEvent' = Event("reply",
           [pending[i] EXCEPT !.res = IF ok THEN OkRes ELSE AuthErr],
           NoTodo, NoLone)
    /\ lone' = NoLone
    /\ UNCHANGED << loading, todos, error, authMode, authLoading, formVars,
                    filter, mounted, subscribed, storeVars >>

\* ------------------------------------------------------------- form

SetTitle(s) ==
    /\ UserEvent
    /\ TaskUi
    /\ title # s
    /\ title' = s
    /\ lastEvent' = Ev("setTitle")
    /\ UNCHANGED << todos, error, description, dueDate, editingId, filter,
                    authVars, storeVars, pending, lone >>

SetDescription(s) ==
    /\ UserEvent
    /\ TaskUi
    /\ description # s
    /\ description' = s
    /\ lastEvent' = Ev("setDescription")
    /\ UNCHANGED << todos, error, title, dueDate, editingId, filter,
                    authVars, storeVars, pending, lone >>

SetDueDate(d) ==
    /\ UserEvent
    /\ TaskUi
    /\ dueDate # d
    /\ dueDate' = d
    /\ lastEvent' = Ev("setDueDate")
    /\ UNCHANGED << todos, error, title, description, editingId, filter,
                    authVars, storeVars, pending, lone >>

\* resetForm without setEditingId(null)
resetFormKeepsId ==
    /\ title' = SetState(title, <<>>)
    /\ description' = SetState(description, <<>>)
    /\ dueDate' = SetState(dueDate, <<>>)
    /\ editingId' = editingId

resetForm ==
    /\ title' = SetState(title, <<>>)
    /\ description' = SetState(description, <<>>)
    /\ dueDate' = SetState(dueDate, <<>>)
    /\ editingId' = SetState(editingId, NoId)

\* the Cancel button, rendered while editingId is set
Cancel ==
    /\ UserEvent
    /\ TaskUi
    /\ editingId # NoId
    /\ resetForm
    /\ lastEvent' = Ev("cancel")
    /\ UNCHANGED << todos, error, filter, authVars, storeVars, pending, lone >>

\* startEdit(todo) on the i-th item of the rendered list
StartEdit(i) ==
    /\ UserEvent
    /\ TaskUi
    /\ i \in 1..Len(filteredTodos)
    /\ LET todo == filteredTodos[i] IN
        /\ editingId' = todo.id
        /\ title' = todo.title
        /\ description' = OrElse(todo.description, <<>>)
        /\ dueDate' = IF todo.due_date # NullText /\ todo.due_date # <<>>
                      THEN Slice10(todo.due_date) ELSE <<>>
        /\ lastEvent' = Event("startEdit", NoCall, todo, NoLone)
    /\ UNCHANGED << todos, error, filter, authVars, storeVars, pending, lone >>

SetFilter(f) ==
    /\ UserEvent
    /\ TaskUi
    /\ filter # f
    /\ filter' = f
    /\ lastEvent' = Ev("setFilter")
    /\ UNCHANGED << todos, error, formVars, authVars, storeVars, pending, lone >>

\* ------------------------------------------------------- task operations

\* the value toggleComplete sends without the negation
ToggledSame(todo) == todo.completed

\* { completed: !todo.completed }
Toggled(todo) == ~todo.completed

\* A store call is answered once the store has run it, or it fails on the
\* way (transport, server) without having run: { error } with a message.
Replied(c, fail) == IF fail THEN c.phase = "sent" ELSE c.phase = "done"

Reply(c, fail) == IF fail THEN [c EXCEPT !.phase = "done", !.res = StoreErr] ELSE c

\* The mutation runs alone when nothing else is in flight and the tracked
\* session is the one the auth client holds.
LoneIf(call) ==
    IF pending = <<>> /\ session = authUser THEN Lone(call, rows) ELSE NoLone

\* handleSubmitTodo up to its await
HandleSubmitTodo ==
    /\ UserEvent
    /\ TaskUi
    /\ lastEvent' = Ev("submit")
    /\ LET payload == Payload(title, description, dueDate, session) IN
       IF session = None
       THEN UNCHANGED << error, pending, lone >>
       ELSE IF payload.title = <<>>
       THEN /\ error' = TitleReq
            /\ UNCHANGED << pending, lone >>
       ELSE LET kind == IF editingId # NoId THEN "update" ELSE "insert"
                call == [ Call(kind, authUser, kind)
                          EXCEPT !.id = editingId, !.payload = payload,
                                 !.shown = todos, !.raw = title ]
            IN  /\ CanIssue
                /\ error' = NoError
                /\ pending' = Append(pending, call)
                /\ lone' = LoneIf(call)
    /\ UNCHANGED << todos, formVars, filter, authVars, storeVars >>

\* handleSubmitTodo after its await
ReplySubmit(i, fail) ==
    /\ UNCHANGED events
    /\ i \in 1..Len(pending)
    /\ pending[i].kind \in {"insert", "update"}
    /\ Replied(pending[i], fail)
    /\ ~effectPending
    /\ lastEvent' = Event("reply", Reply(pending[i], fail), NoTodo, NoLone)
    /\ IF Reply(pending[i], fail).res # OkRes
       THEN /\ error' = SetState(error, Reply(pending[i], fail).res)
            /\ pending' = RemoveAt(pending, i) \o
                              TrailingCalls(Reply(pending[i], fail))
            /\ lone' = NoLone
            /\ UNCHANGED formVars
       ELSE /\ resetForm
            /\ error' = SetState(error, NoError)
            /\ pending' = RemoveAt(pending, i) \o
                              TrailingCalls(Reply(pending[i], fail))
            /\ UNCHANGED lone
    /\ UNCHANGED << todos, filter, authVars, storeVars >>

\* toggleComplete(todo) on the i-th item of the rendered list, up to its await
ToggleComplete(i) ==
    /\ UserEvent
    /\ TaskUi
    /\ CanIssue
    /\ i \in 1..Len(filteredTodos)
    /\ LET todo == filteredTodos[i]
           call == [ Call("toggle", authUser, "toggle")
                     EXCEPT !.id = todo.id, !.completed = Toggled(todo),
                            !.todo = todo, !.shown = todos ]
       IN  /\ pending' = Append(pending, call)
           /\ lastEvent' = Event("toggle", NoCall, todo, NoLone)
           /\ lone' = LoneIf(call)
    /\ UNCHANGED << todos, error, formVars, filter, authVars, storeVars >>

\* deleteTodo(todo.id) on the i-th item of the rendered list, up to its await
DeleteTodo(i) ==
    /\ UserEvent
    /\ TaskUi
    /\ CanIssue
    /\ i \in 1..Len(filteredTodos)
    /\ LET todo == filteredTodos[i]
           call == [ Call("delete", authUser, "delete")
                     EXCEPT !.id = todo.id, !.todo = todo, !.shown = todos ]
       IN  /\ pending' = Append(pending, call)
           /\ lastEvent' = Event("delete", NoCall, todo, NoLone)
           /\ lone' = LoneIf(call)
    /\ UNCHANGED << todos, error, formVars, filter, authVars, storeVars >>

\* toggleComplete and deleteTodo after their await
ReplyToggleDelete(i, fail) ==
    /\ UNCHANGED events
    /\ i \in 1..Len(pending)
    /\ pending[i].kind \in {"toggle", "delete"}
    /\ Replied(pending[i], fail)
    /\ ~effectPending
    /\ lastEvent' = Event("reply", Reply(pending[i], fail), NoTodo, NoLone)
    /\ IF Reply(pending[i], fail).res # OkRes
       THEN /\ error' = SetState(error, Reply(pending[i], fail).res)
            /\ pending' = RemoveAt(pending, i) \o
                              TrailingCalls(Reply(pending[i], fail))
            /\ lone' = NoLone
       ELSE /\ error' = SetState(error, NoError)
            /\ pending' = RemoveAt(pending, i) \o
                              TrailingCalls(Reply(pending[i], fail))
            /\ UNCHANGED lone
    /\ UNCHANGED << todos, formVars, filter, authVars, storeVars >>

\* fetchTodos after its await
ReplyFetch(i, fail) ==
    /\ UNCHANGED events
    /\ i \in 1..Len(pending)
    /\ pending[i].kind = "fetch"
    /\ Replied(pending[i], fail)
    /\ ~effectPending
    /\ lastEvent' = Event("reply", Reply(pending[i], fail), NoTodo, lone)
    /\ todos' = SetState(todos, TodosAfterFetch(Reply(pending[i], fail), todos))
    /\ error' = IF Reply(pending[i], fail).res # OkRes
                THEN SetState(error, Reply(pending[i], fail).res)
                ELSE error
    /\ pending' = RemoveAt(pending, i)
    /\ lone' = NoLone
    /\ UNCHANGED << formVars, filter, authVars, storeVars >>

\* ------------------------------------------------------------- store

\* an update that leaves updated_at as it is
UpdatedAtKept(r, t) == r.updated_at

\* trigger set_todos_updated_at, before update: new.updated_at = now()
UpdatedAt(r, t) == t

\* the rows the policies let the caller update or delete
Matched(c) == { r \in Visible(c.uid) : r.id = c.id }

\* The store runs a call.
StoreExec(i) ==
    /\ UNCHANGED events
    /\ i \in 1..Len(pending)
    /\ pending[i].kind \in StoreKinds
    /\ pending[i].phase = "sent"
    /\ lastEvent' = Ev("store")
    /\ LET c == pending[i]
           Done(res, data) ==
               pending' = [pending EXCEPT ![i] =
                   [c EXCEPT !.phase = "done", !.res = res, !.data = data]]
       IN
       CASE c.kind = "fetch" ->
                 Done(OkRes, OrderDesc(Visible(c.uid))) /\ UNCHANGED storeVars
            [] c.kind = "insert" ->
                 IF c.uid = None \/ c.payload.user_id # c.uid
                 THEN Done(RlsErr, <<>>) /\ UNCHANGED storeVars
                 ELSE /\ nextId <= MaxRows
                      /\ now <= MaxClock
                      /\ rows' = rows \cup
                           { Todo(nextId, c.payload.user_id, c.payload.title,
                                  c.payload.description, FALSE,
                                  c.payload.due_date, now, now) }
                      /\ nextId' = nextId + 1
                      /\ now' = now + 1
                      /\ Done(OkRes, <<>>)
            [] c.kind = "update" ->
                 IF Matched(c) = {}
                 THEN Done(OkRes, <<>>) /\ UNCHANGED storeVars
                 ELSE IF c.payload.user_id # c.uid
                 THEN Done(RlsErr, <<>>) /\ UNCHANGED storeVars
                 ELSE /\ now <= MaxClock
                      /\ rows' = (rows \ Matched(c)) \cup
                           { [ r EXCEPT !.title = c.payload.title,
                                        !.description = c.payload.description,
                                        !.due_date = c.payload.due_date,
                                        !.user_id = c.payload.user_id,
                                        !.updated_at = UpdatedAt(r, now) ]
                             : r \in Matched(c) }
                      /\ now' = now + 1
                      /\ Done(OkRes, <<>>)
                      /\ UNCHANGED nextId
            [] c.kind = "toggle" ->
                 IF Matched(c) = {}
                 THEN Done(OkRes, <<>>) /\ UNCHANGED storeVars
                 ELSE /\ now <= MaxClock
                      /\ rows' = (rows \ Matched(c)) \cup
                           { [ r EXCEPT !.completed = c.completed,
                                        !.updated_at = UpdatedAt(r, now) ]
                             : r \in Matched(c) }
                      /\ now' = now + 1
                      /\ Done(OkRes, <<>>)
                      /\ UNCHANGED nextId
            [] c.kind = "delete" ->
                 /\ rows' = rows \ Matched(c)
                 /\ Done(OkRes, <<>>)
                 /\ UNCHANGED << nextId, now >>
    /\ UNCHANGED << todos, error, formVars, filter, authVars, lone >>

\* ------------------------------------------------------------- Next

Next ==
    \/ \E i \in 1..MaxPending + 1 : ReplyGetSession(i)
    \/ SessionEffect
    \/ Unmount
    \/ SessionExpired
    \/ \E u \in Users : SignedInElsewhere(u)
    \/ SetAuthMode
    \/ \E u \in Users : HandleAuth(u)
    \/ \E i \in 1..MaxPending + 1, ok \in BOOLEAN : ReplyAuth(i, ok)
    \/ HandleLogout
    \/ \E i \in 1..MaxPending + 1, ok \in BOOLEAN : ReplySignOut(i, ok)
    \/ \E s \in TitleInputs : SetTitle(s)
    \/ \E s \in DescInputs : SetDescription(s)
    \/ \E d \in DateInputs : SetDueDate(d)
    \/ Cancel
    \/ \E i \in 1..MaxRows : StartEdit(i)
    \/ \E f \in Filters : SetFilter(f)
    \/ HandleSubmitTodo
    \/ \E i \in 1..MaxPending + 1, fail \in BOOLEAN : ReplySubmit(i, fail)
    \/ \E i \in 1..MaxRows : ToggleComplete(i)
    \/ \E i \in 1..MaxRows : DeleteTodo(i)
    \/ \E i \in 1..MaxPending + 1, fail \in BOOLEAN : ReplyToggleDelete(i, fail)
    \/ \E i \in 1..MaxPending + 1, fail \in BOOLEAN : ReplyFetch(i, fail)
    \/ \E i \in 1..MaxPending + 1 : StoreExec(i)

Spec == Init /\ [][Next]_vars

\* ------------------------------------------------ the filter on its own

\* Collections a fetch can have produced: tasks of one user with distinct
\* ids, newest first, every mix of completed flags.
Collections ==
    { ts \in UNION { [1..n -> [ id : 1..MaxRows, completed : BOOLEAN ]]
                     : n \in 0..MaxRows } :
        \A j, k \in 1..Len(ts) : j < k => ts[j].id > ts[k].id }

FilterInit ==
    /\ session = "u1"
    /\ authUser = "u1"
    /\ loading = FALSE
    /\ \E ts \in Collections :
          /\ todos = [ k \in 1..Len(ts) |->
                         Todo(ts[k].id, "u1", <<"a">>, NullText,
                              ts[k].completed, NullText, ts[k].id, ts[k].id) ]
          /\ rows = { todos[k] : k \in 1..Len(ts) }
    /\ error = NoError
    /\ authMode = "login"
    /\ authLoading = FALSE
    /\ title = <<>>
    /\ description = <<>>
    /\ dueDate = <<>>
    /\ editingId = NoId
    /\ filter = "all"
    /\ effectPending = FALSE
    /\ mounted = TRUE
    /\ subscribed = TRUE
    /\ nextId = MaxRows + 1
    /\ now = MaxRows + 1
    /\ pending = <<>>
    /\ events = 0
    /\ lastEvent = Ev("mount")
    /\ lone = NoLone

FilterNext == \E f \in Filters : SetFilter(f)

FilterSpec == FilterInit /\ [][FilterNext]_vars

\* ------------------------------------------------------------- claims

Last(s) == s[Len(s)]

\* the last step delivered the reply of a call of one of these kinds
LastReply(kinds) == lastEvent.kind = "reply" /\ lastEvent.call.kind \in kinds

FailedReply(kinds) == LastReply(kinds) /\ lastEvent.call.res # OkRes

\* The step issued a call: a continuation takes its own call out of pending,
\* every other step leaves the calls in flight where they are.
IssuedCall ==
    IF lastEvent'.kind = "reply" THEN Len(pending') = Len(pending)
    ELSE Len(pending') > Len(pending)

IssuedStoreCall == IssuedCall /\ Last(pending').kind \in StoreKinds

\* pending' is pending without the call the step answered
AnsweredOnly ==
    \E i \in 1..Len(pending) :
        /\ pending' = RemoveAt(pending, i)
        /\ pending[i].kind = lastEvent'.call.kind
        /\ pending[i].id = lastEvent'.call.id

\* C1: a fetch that fails sets the current error to the store's message and
\* leaves the collection exactly as it was before the reply.
C1_FetchFailureKeepsCollection ==
    [][ (mounted /\ FailedReply({"fetch"})')
        => (error' = lastEvent'.call.res /\ todos' = todos) ]_vars

C1_Witness ==
    /\ mounted
    /\ FailedReply({"fetch"})
    /\ error = StoreErr
    /\ Len(todos) = 2

\* C2: a submit whose title is empty after trimming, while creating or while
\* editing, issues no call at all, sets the validation error and leaves the
\* store, the collection and the form as they are.
C2_EmptyTitleNeverReachesStore ==
    [][ (lastEvent'.kind = "submit" /\ \A k \in 1..Len(title) : title[k] = " ")
        => /\ pending' = pending
           /\ error' = TitleReq
           /\ rows' = rows
           /\ todos' = todos
           /\ formVars' = formVars ]_vars

C2_Witness ==
    /\ lastEvent.kind = "submit"
    /\ title = <<" ">>
    /\ editingId # NoId
    /\ error = TitleReq

\* C3: a create, update, toggle or remove the store fails sets the current
\* error to the store's message; the call is gone from the calls in flight,
\* nothing is issued in its place (no retry, no trailing fetch) and the
\* collection is as before.
C3_FailedMutationAborts ==
    [][ (mounted /\ FailedReply({"insert", "update", "toggle", "delete"})')
        => /\ error' = lastEvent'.call.res
           /\ ~IssuedCall
           /\ AnsweredOnly
           /\ todos' = todos ]_vars

C3_Witness ==
    /\ mounted
    /\ FailedReply({"toggle"})
    /\ error = StoreErr
    /\ Len(todos) = 2
    /\ pending = <<>>

\* C4: the step that makes the tracked session absent schedules the session
\* effect, which empties the collection and issues no call; the step that
\* makes it present schedules the effect too, which then issues a fetch.
C4_LogoutClearsLoginFetches ==
    [][ /\ (mounted /\ session' # session) => effectPending'
        /\ (lastEvent'.kind = "effect" /\ session = None)
              => (todos' = <<>> /\ pending' = pending /\ rows' = rows)
        /\ (lastEvent'.kind = "effect" /\ session # None)
              => /\ IssuedCall
                 /\ Last(pending').kind = "fetch"
                 /\ Last(pending').phase = "sent"
                 /\ Last(pending').uid = authUser ]_vars

\* logged in again after a logout that emptied a list a task of which had
\* been toggled
C4_Witness ==
    /\ lastEvent.kind = "effect"
    /\ session # None
    /\ todos = <<>>
    /\ \E i \in 1..Len(pending) : pending[i].kind = "toggle"
    /\ Last(pending).kind = "fetch"

OkFetchReply == mounted /\ LastReply({"fetch"}) /\ lastEvent.call.res = OkRes

Shown == { todos[k] : k \in 1..Len(todos) }

\* the rows of the store the policies show to the caller of call c
RowsOf(c, stored) == { r \in stored : r.user_id = c.uid }

\* C5 as claimed: the fetch that trails toggleCompleted(t), made for the
\* session that is still the tracked one, yields a task with t's id, the
\* negated completed flag and every other field as in t (updated_at, the
\* store's own stamp of the mutation, aside), and every other task on screen
\* when the toggle was invoked unchanged, whatever else is in flight.
C5_ToggleThenFetchAlways ==
    (OkFetchReply /\ lastEvent.call.origin = "toggle"
                  /\ session # None /\ lastEvent.call.uid = session)
    => LET t == lastEvent.call.todo
           was == lastEvent.call.shown
       IN  /\ \E x \in Shown :
                x = [t EXCEPT !.completed = ~t.completed,
                              !.updated_at = x.updated_at]
           /\ \A j \in 1..Len(was) : was[j].id # t.id => was[j] \in Shown

\* C5, amended: when t is the store's current row of the session's user and
\* no other call is in flight or issued between the toggle and the reply of
\* its trailing fetch, the fetched collection holds a task with t's id, the
\* negated completed flag and every other field except updated_at as in t;
\* the other tasks of that user are in it unchanged and nothing else is.
C5_ToggleAloneThenFetch ==
    LET ln == lastEvent.lone
        t == ln.call.todo
    IN  (OkFetchReply /\ ln.call.kind = "toggle" /\ t \in RowsOf(ln.call, ln.before))
        => /\ \E x \in Shown :
                x = [t EXCEPT !.completed = ~t.completed,
                              !.updated_at = x.updated_at]
           /\ { x \in Shown : x.id # t.id }
                 = { r \in RowsOf(ln.call, ln.before) : r.id # t.id }
           /\ Len(todos) = Cardinality(RowsOf(ln.call, ln.before))

C5_Witness ==
    LET ln == lastEvent.lone
        t == ln.call.todo
    IN  /\ OkFetchReply
        /\ ln.call.kind = "toggle"
        /\ t \in RowsOf(ln.call, ln.before)
        /\ Len(todos) = 2
        /\ \E x \in Shown : x.id = t.id /\ x.completed # t.completed

\* t is raw without the spaces at its two ends
IsTrimOf(t, raw) ==
    /\ t # <<>>
    /\ t[1] # " "
    /\ t[Len(t)] # " "
    /\ \E a \in 0..Len(raw) :
          /\ a + Len(t) <= Len(raw)
          /\ SubSeq(raw, a + 1, a + Len(t)) = t
          /\ \A k \in 1..Len(raw) : (k <= a \/ k > a + Len(t)) => raw[k] = " "

\* C6: a create that succeeds, followed by its fetch with nothing else in
\* between, yields exactly one task that was not stored before; its title is
\* the typed title trimmed, it is not completed, it belongs to the session's
\* user; every task stored before is still there unchanged.
C6_CreateThenFetch ==
    LET ln == lastEvent.lone
        old == RowsOf(ln.call, ln.before)
    IN  (OkFetchReply /\ ln.call.kind = "insert")
        => /\ Cardinality(Shown \ old) = 1
           /\ Len(todos) = Cardinality(Shown)
           /\ old \subseteq Shown
           /\ \A n \in Shown \ old :
                /\ IsTrimOf(n.title, ln.call.raw)
                /\ n.completed = FALSE
                /\ n.user_id = session
                /\ \A r \in ln.before : r.id # n.id

C6_Witness ==
    /\ OkFetchReply
    /\ lastEvent.lone.call.kind = "insert"
    /\ lastEvent.lone.call.raw = <<" ", "b", " ">>
    /\ Len(todos) = 2
    /\ todos[1].title = <<"b">>

\* what the selection lets through
Selected(t) ==
    /\ filter = "active" => ~t.completed
    /\ filter = "completed" => t.completed

PosIn(ts, x) == CHOOSE j \in 1..Len(ts) : ts[j] = x

\* C7: the visible list holds exactly the tasks of the collection the
\* selection lets through, once each and in the collection's order ('all':
\* the collection itself); changing the selection issues no call and leaves
\* the collection and the store alone.
C7_FilterSubset ==
    LET v == filteredTodos IN
    /\ \A k \in 1..Len(v) : v[k] \in Shown /\ Selected(v[k])
    /\ \A x \in Shown : Selected(x) => \E k \in 1..Len(v) : v[k] = x
    /\ Len(v) = Cardinality({ x \in Shown : Selected(x) })
    /\ \A j, k \in 1..Len(v) : j < k => PosIn(todos, v[j]) < PosIn(todos, v[k])
    /\ filter = "all" => v = todos

C7_FilterIsLocal ==
    lastEvent'.kind = "setFilter"
        => (filter' # filter /\ pending' = pending /\ todos' = todos /\ rows' = rows)

C7_Filter == []C7_FilterSubset /\ [][C7_FilterIsLocal]_vars

C7_Witness ==
    /\ lastEvent.kind = "setFilter"
    /\ filter = "active"
    /\ Len(todos) = 3
    /\ Len(filteredTodos) = 2
    /\ ~todos[1].completed /\ todos[2].completed /\ ~todos[3].completed

\* C8 as claimed: while the tracked session is absent no step issues a store
\* call.
C8_NoStoreCallWithoutSession ==
    [][ session = None => ~IssuedStoreCall ]_vars

\* C9 as claimed: every reply that carries an error, of an auth call as of a
\* store call, becomes the current error.
C9_EveryFailureSurfaced ==
    [][ (mounted /\ lastEvent'.kind = "reply" /\ lastEvent'.call.res # OkRes)
        => error' = lastEvent'.call.res ]_vars

\* C10: a step changes the collection only by replacing it with the rows of
\* a fetch that succeeded or by emptying it in the session effect while the
\* session is absent.
C10_CollectionNeverPatched ==
    [][ todos' # todos
        => \/ (OkFetchReply' /\ todos' = lastEvent'.call.data)
           \/ (lastEvent'.kind = "effect" /\ session = None /\ todos' = <<>>) ]_vars

\* a toggle has succeeded in the store and its continuation has run; the
\* collection still shows the task as it was
C10_Witness ==
    /\ mounted
    /\ LastReply({"toggle"})
    /\ lastEvent.call.res = OkRes
    /\ lastEvent.call.todo \in Shown
    /\ \E r \in rows : r.id = lastEvent.call.id
                       /\ r.completed # lastEvent.call.todo.completed

\* C11: in every state the collection is in descending order of creation
\* time: of two tasks the one listed first was not created earlier.
C11_CollectionNewestFirst ==
    \A j, k \in 1..Len(todos) :
        j < k => todos[j].created_at >= todos[k].created_at

\* a fetch has brought a task created in this run above the seeded one
C11_Witness ==
    /\ OkFetchReply
    /\ Len(todos) = 2
    /\ todos[1].created_at > todos[2].created_at
    /\ todos[1].created_at >= 3

\* the form is in creating mode with an empty draft
FormIdle ==
    /\ title = <<>>
    /\ description = <<>>
    /\ dueDate = <<>>
    /\ editingId = NoId

OkSubmitReply ==
    mounted /\ LastReply({"insert", "update"}) /\ lastEvent.call.res = OkRes

\* C12: edit on a task of the collection puts its id and its fields in the
\* form (no description: empty, due date: its date part); a submit with a
\* title issues one call and keeps the form, an update of the row with the
\* id being edited or else an insert; a submit without a title issues none
\* and keeps the form; the reply of a submit that failed keeps the form; the
\* reply of a submit that succeeded and Cancel leave the form empty and in
\* creating mode, and no other step does.
C12_EditFormStateMachine ==
    [][ /\ lastEvent'.kind = "startEdit"
            => LET t == lastEvent'.todo IN
               /\ t \in Shown
               /\ editingId' = t.id
               /\ title' = t.title
               /\ description' = (IF t.description \in {NullText, <<>>}
                                  THEN <<>> ELSE t.description)
               /\ IF t.due_date = NullText THEN dueDate' = <<>>
                  ELSE ToISOString(dueDate') = t.due_date
        /\ (lastEvent'.kind = "submit" /\ Trim(title) # <<>>)
            => /\ IssuedCall
               /\ Len(pending') = Len(pending) + 1
               /\ Last(pending').kind
                     = (IF editingId # NoId THEN "update" ELSE "insert")
               /\ Last(pending').id = editingId
               /\ Last(pending').payload.title = Trim(title)
               /\ formVars' = formVars
        /\ (lastEvent'.kind = "submit" /\ Trim(title) = <<>>)
            => (pending' = pending /\ formVars' = formVars)
        /\ (mounted /\ FailedReply({"insert", "update"})')
            => formVars' = formVars
        /\ (OkSubmitReply' \/ (mounted /\ lastEvent'.kind = "cancel"))
            => FormIdle'
        /\ (formVars' # formVars /\ FormIdle')
            => (OkSubmitReply' \/ lastEvent'.kind = "cancel") ]_vars

\* the store failed the update of the task being edited: the form is still
\* editing it, with the draft that was submitted
C12_Witness ==
    /\ mounted
    /\ FailedReply({"update"})
    /\ editingId = lastEvent.call.id
    /\ editingId # NoId
    /\ Trim(title) = lastEvent.call.payload.title
    /\ \E x \in Shown : x.id = editingId

\* no fetch is in flight and none has filled the collection
NoFetchYet ==
    /\ \A i \in 1..Len(pending) : pending[i].kind # "fetch"
    /\ todos = <<>>

C13_AbsentWhileLoadingState == loading => (session = None /\ NoFetchYet)

C13_LoadingEndsWithCheck ==
    loading' # loading
        => (~loading' /\ LastReply({"getSession"})' /\ lastEvent' # lastEvent)

\* C13 as claimed: while loading is true the tracked session is absent and
\* no fetch has been issued, and loading becomes false in the step that
\* delivers the reply of getSession and in no other.
C13_AbsentWhileLoading ==
    []C13_AbsentWhileLoadingState /\ [][C13_LoadingEndsWithCheck]_vars

\* the step is one in which the auth collaborator notifies its listeners
Notifying ==
    \/ lastEvent'.kind \in {"expired", "signedIn"}
    \/ /\ lastEvent'.kind = "reply"
       /\ lastEvent'.call.kind \in {"signIn", "signUp", "signOut"}
       /\ lastEvent'.call.res = OkRes

C14_NotificationReplaces ==
    (subscribed /\ Notifying) => session' = authUser'

C14_SettledSessionIsCurrent ==
    (mounted /\ ~loading) => session = authUser

\* C14 as claimed: a notification delivered to the listener leaves the
\* tracked session equal to the notified value, and once the initial check
\* has been answered (every notification is delivered in the step that
\* changes the collaborator's session) the tracked session is the session
\* the auth collaborator holds.
C14_SessionFollowsAuth ==
    []C14_SettledSessionIsCurrent /\ [][C14_NotificationReplaces]_vars

\* d is what the payload holds for a description: null, or a text that is
\* not empty and has no space at either end
IsNormalDescription(d) ==
    d = NullText \/ (d # <<>> /\ d[1] # " " /\ d[Len(d)] # " ")

\* due is what the payload holds for a due date: null or a full timestamp
IsNormalDueDate(due) ==
    due = NullText \/ \E d \in DateInputs : due = ToISOString(d)

\* C15: an update of a row the store holds for the session's user that
\* succeeds, followed by its fetch with nothing else in between, yields a
\* task with the same id, creation time, completed flag and owner, whose
\* title, description and due date are the submitted values in their
\* normal form and whose updated_at is later than before; the other tasks of
\* the user are in the collection unchanged, and every other row of the store
\* is as it was.
C15_UpdateThenFetch ==
    LET ln == lastEvent.lone
        c == ln.call
        mine == RowsOf(c, ln.before)
    IN  (OkFetchReply /\ c.kind = "update")
        => \A r \in { y \in mine : y.id = c.id } :
              /\ \E x \in Shown :
                    /\ x.id = r.id
                    /\ x.created_at = r.created_at
                    /\ x.completed = r.completed
                    /\ x.user_id = r.user_id
                    /\ x.title = c.payload.title
                    /\ IsTrimOf(x.title, c.raw)
                    /\ x.description = c.payload.description
                    /\ IsNormalDescription(x.description)
                    /\ x.due_date = c.payload.due_date
                    /\ IsNormalDueDate(x.due_date)
                    /\ x.updated_at > r.updated_at
              /\ { x \in Shown : x.id # r.id } = { y \in mine : y.id # r.id }
              /\ Len(todos) = Cardinality(mine)
              /\ { y \in rows : y.id # r.id } = { y \in ln.before : y.id # r.id }

\* the seeded task of u1 edited: a new title typed over the old one, the
\* description, the due date and the completed flag as they were
C15_Witness ==
    LET c == lastEvent.lone.call IN
    /\ OkFetchReply
    /\ c.kind = "update"
    /\ \E r \in RowsOf(c, lastEvent.lone.before) :
          /\ r.id = c.id
          /\ r.title = <<"a">>
          /\ \E x \in Shown :
                /\ x.id = r.id
                /\ x.title = <<"b">>
                /\ x.description = <<"d">>
                /\ x.completed
                /\ x.updated_at > r.updated_at

C16_ReleasedOnTeardown == ~mounted => ~subscribed

C16_NothingAfterTeardown ==
    ~mounted => (session' = session /\ ~subscribed' /\ ~effectPending')

\* C16: once the component is torn down the listener is not registered any
\* more, and no later step, a change of the auth collaborator's session
\* included, alters the tracked session or schedules its effect.
C16_ListenerReleased ==
    []C16_ReleasedOnTeardown /\ [][C16_NothingAfterTeardown]_vars

\* the auth collaborator has ended the session after the teardown: the
\* tracked session is still the one held at teardown
C16_Witness ==
    /\ ~mounted
    /\ ~subscribed
    /\ lastEvent.kind = "expired"
    /\ authUser = None
    /\ session # None

\* no store call is in flight
NoStoreCall == \A i \in 1..Len(pending) : pending[i].kind \notin StoreKinds

\* C17 as claimed: when a session is present (the one the auth collaborator
\* holds), its effect has run, no store call is in flight, no error is shown
\* and the last thing to happen was the successful reply of a fetch made for
\* that session, the collection is the rows the store holds for the
\* session's user, newest first.
C17_QuiescentConsistency ==
    (/\ ~loading /\ ~effectPending
     /\ session # None /\ session = authUser
     /\ NoStoreCall
     /\ error = NoError
     /\ OkFetchReply /\ lastEvent.call.uid = session)
    => todos = OrderDesc(Visible(session))

\* C18 as claimed: once the effect of the last session change has run, every
\* task of the collection belongs to the user of the tracked session, and
\* the collection is empty when the tracked session is absent.
C18_CollectionOwnedBySession ==
    (mounted /\ ~effectPending)
    => /\ \A x \in Shown : x.user_id = session
       /\ session = None => todos = <<>>

\* C19 as claimed: while the form is editing (and the effect of the last
\* session change has run), the id it edits is the id of a task of the
\* collection that belongs to the user of the tracked session.
C19_EditedTaskIsShown ==
    (mounted /\ ~effectPending /\ editingId # NoId)
    => \E x \in Shown : x.id = editingId /\ x.user_id = session

\* C20 as claimed: when the form is no longer the one that was submitted
\* (another task is being edited, or another title has been typed), the
\* reply of the submit that succeeded leaves the form as it is.
C20_OnlySubmittedDraftDiscarded ==
    [][ (/\ OkSubmitReply'
         /\ (editingId # lastEvent'.call.id \/ title # lastEvent'.call.raw))
        => formVars' = formVars ]_vars

====
